---- MODULE Spec2Model ----
(***************************************************************************)
(* Model of night/node-eventsource, src/eventsource.js. The undici variant *)
(* (lines 168-369): the EventSource connection state machine (connect,     *)
(* handleResponse, resetHeartbeatTimeout), the incremental byte-scanning   *)
(* parser (the Writable's write and parseEventStreamLine), and the         *)
(* interface of the `backoff` package the class drives. The fetch variant  *)
(* (lines 1-166): the 'data' handler of handleResponse and the             *)
(* EventSourceEvent class, at the end of the module.                       *)
(*                                                                         *)
(* Strings and Buffers are sequences of byte values (ASCII only, where     *)
(* Buffer.toString() maps a byte to the character with the same code).     *)
(* JavaScript's null is the value Null, which is no byte sequence.         *)
(***************************************************************************)
EXTENDS Integers, Sequences, FiniteSets, TLC

VARIABLES
    readyState,              \* this.readyState
    lastEventId,             \* this.lastEventId
    transport,               \* the undici.stream request of the running connect()
    openRequests,            \* number of transport requests currently open
    requestHeader,           \* Last-Event-ID header of the latest request (Null: none)
    errorListener,           \* the owner subscribed to 'error'
    unhandled,               \* connect() rejected: emit('error') had no listener
    backoffTimer,            \* backoff: timeoutID_ # -1
    backoffDelay,            \* backoff: delay of the timer scheduled last
    nextBackoffDelay,        \* backoff strategy: nextBackoffDelay_
    heartbeatInterval,       \* this.heartbeatInterval != null
    heartbeatTarget,         \* the interval's callback destroys the latest writable
    lastHeartbeat,           \* this.lastHeartbeat is a timestamp (FALSE: never assigned, undefined)
    heartbeat,               \* the closure `heartbeat` of the latest handleResponse is a function
    eventId,                 \* handleResponse closure: eventId
    eventName,               \* handleResponse closure: eventName
    eventData,               \* handleResponse closure: eventData
    buffer,                  \* handleResponse closure: buffer
    discardTrailingNewline,  \* handleResponse closure: discardTrailingNewline
    events,                  \* stream events emitted in this attempt, in order
    notes,                   \* lifecycle notifications emitted in this attempt, in order
    op,                      \* the operation that ran last
    writes,                  \* chunks written in this connection
    record,                  \* input history: complete lines of the record being received
    lastRecord,              \* input history: the record ended by the latest blank line
    idHistory,               \* input history: id of the latest completed record with a NUL-free id
    stream,                  \* input: the byte sequence being delivered
    lines,                   \* input: the lines and line terminators stream is made of
    pos                      \* input: number of bytes of stream delivered so far

vars == <<readyState, lastEventId, transport, openRequests, requestHeader,
          errorListener, unhandled, backoffTimer, backoffDelay, nextBackoffDelay,
          heartbeatInterval, heartbeatTarget, lastHeartbeat, heartbeat,
          eventId, eventName, eventData, buffer, discardTrailingNewline,
          events, notes, op, writes, record, lastRecord, idHistory, stream, lines, pos>>

(***************************************************************************)
(* Constants of the source.                                                *)
(***************************************************************************)
ReadyStates == [CONNECTING |-> 0, CONNECTED |-> 1, DISCONNECTED |-> 2]

COLON_CHARACTER == 58
SPACE_CHARACTER == 32
LINE_FEED_CHARACTER == 10
CARRIAGE_RETURN_CHARACTER == 13

\* DefaultOptions, in milliseconds
initialReconnectDelay == 2000
maximumReconnectDelay == 30000

Null == <<-1>>

\* no record yet, where a sequence of lines is expected
NoRecord == <<Null>>

\* 'data', 'event', 'id', 'message' as bytes
FIELD_DATA == <<100, 97, 116, 97>>
FIELD_EVENT == <<101, 118, 101, 110, 116>>
FIELD_ID == <<105, 100>>
MESSAGE == <<109, 101, 115, 115, 97, 103, 101>>
ERROR == <<101, 114, 114, 111, 114>>

(***************************************************************************)
(* Bounds of the model.                                                    *)
(***************************************************************************)
MaxStreamLines == 3     \* lines of a stream delivered in cut chunks
MaxLines == 4           \* lines written one per chunk
MaxWrites == 2          \* chunks written on one connection

(***************************************************************************)
(* JavaScript helpers.                                                     *)
(***************************************************************************)
Min(a, b) == IF a < b THEN a ELSE b

\* Buffer.slice(start, end) / String.slice(start, end), 0-based, end exclusive
Slice(buf, start, end) == SubSeq(buf, start + 1, Min(end, Len(buf)))

\* buffer[index], undefined (-1, no byte) outside the buffer
At(buf, index) == IF index >= 0 /\ index < Len(buf) THEN buf[index + 1] ELSE -1

\* eventName || 'message'
OrMessage(name) == IF name = Null \/ name = <<>> THEN MESSAGE ELSE name

(***************************************************************************)
(* parseEventStreamLine: p is the closure state it reads and writes,       *)
(* [eventId, eventName, eventData, lastEventId, events], and thrown: the   *)
(* call ended by an exception.                                             *)
(***************************************************************************)
\* this.emit(name, ...) throws: EventEmitter throws on 'error' when nobody
\* listens to 'error'
EmitEventThrows(name) == name = ERROR /\ ~errorListener

\* the branch lineLength === 0: a throwing emit leaves the lines after it undone
BlankLine(p) ==
    LET emit == Len(p.eventData) > 0
        ev == [channel |-> OrMessage(p.eventName),
               id |-> p.eventId,
               name |-> p.eventName,
               data |-> Slice(p.eventData, 0, Len(p.eventData) - 1)]
    IN IF emit /\ EmitEventThrows(ev.channel)
       THEN [p EXCEPT !.thrown = TRUE]
       ELSE [eventId |-> Null,
             eventName |-> Null,
             eventData |-> IF emit THEN <<>> ELSE p.eventData,
             lastEventId |-> IF p.eventId # Null THEN p.eventId ELSE p.lastEventId,
             events |-> IF emit THEN Append(p.events, ev) ELSE p.events,
             thrown |-> FALSE]

\* faulty variant: the id is committed by the id line itself
IdField_commits(p, value) == [p EXCEPT !.eventId = value, !.lastEventId = value]

\* eventId = value
IdField(p, value) == [p EXCEPT !.eventId = value]

FieldLine(p, buf, position, fieldLength, lineLength) ==
    LET emptyValue == fieldLength < 0
        field == Slice(buf, position,
                       position + (IF emptyValue THEN lineLength ELSE fieldLength))
        step == IF emptyValue THEN lineLength
                ELSE IF At(buf, position + fieldLength + 1) # SPACE_CHARACTER
                     THEN fieldLength + 1
                     ELSE fieldLength + 2
        position2 == position + step
        valueLength == lineLength - step
        value == Slice(buf, position2, position2 + valueLength)
    IN IF field = FIELD_DATA
       THEN [p EXCEPT !.eventData = p.eventData \o value \o <<LINE_FEED_CHARACTER>>]
       ELSE IF field = FIELD_EVENT
       THEN [p EXCEPT !.eventName = value]
       ELSE IF field = FIELD_ID
       THEN IdField(p, value)
       ELSE p

IsFieldLine(fieldLength) == fieldLength > 0

parseEventStreamLine(p, buf, position, fieldLength, lineLength) ==
    IF lineLength = 0 THEN BlankLine(p)
    ELSE IF IsFieldLine(fieldLength)
    THEN FieldLine(p, buf, position, fieldLength, lineLength)
    ELSE p

(***************************************************************************)
(* The Writable's write(chunk): the scan for the end of a line (the for    *)
(* loop), the loop over the lines of the buffer (the while loop), and the  *)
(* buffer kept for the next chunk.                                         *)
(***************************************************************************)
RECURSIVE ScanLine(_, _, _, _)
ScanLine(buf, position, bufferIndex, fieldLength) ==
    IF bufferIndex >= Len(buf)
    THEN [lineLength |-> -1, fieldLength |-> fieldLength, cr |-> FALSE]
    ELSE LET character == buf[bufferIndex + 1]
         IN IF character = COLON_CHARACTER
            THEN ScanLine(buf, position, bufferIndex + 1,
                          IF fieldLength < 0 THEN bufferIndex - position ELSE fieldLength)
            ELSE IF character = CARRIAGE_RETURN_CHARACTER
            THEN [lineLength |-> bufferIndex - position, fieldLength |-> fieldLength,
                  cr |-> TRUE]
            ELSE IF character = LINE_FEED_CHARACTER
            THEN [lineLength |-> bufferIndex - position, fieldLength |-> fieldLength,
                  cr |-> FALSE]
            ELSE ScanLine(buf, position, bufferIndex + 1, fieldLength)

\* faulty variant: the line feed after a carriage return is never skipped
SkipLineFeed_never(buf, position, discard) == position

\* faulty variant: the flag is honoured only inside a buffer, not at the head of a chunk
SkipLineFeed_inChunkOnly(buf, position, discard) ==
    IF discard /\ position > 0 /\ buf[position + 1] = LINE_FEED_CHARACTER
    THEN position + 1 ELSE position

\* the `if (discardTrailingNewline)` at the head of the while loop
SkipLineFeed(buf, position, discard) ==
    IF discard /\ buf[position + 1] = LINE_FEED_CHARACTER THEN position + 1 ELSE position

\* the while loop: [p, position, discard] when it exits, by its condition,
\* by the break, or by an exception of parseEventStreamLine
RECURSIVE WriteLoop(_, _, _, _)
WriteLoop(p, buf, position, discard) ==
    IF position >= Len(buf)
    THEN [p |-> p, position |-> position, discard |-> discard]
    ELSE LET start == SkipLineFeed(buf, position, discard)
             scan == ScanLine(buf, start, start, -1)
         IN IF scan.lineLength < 0
            THEN [p |-> p, position |-> start, discard |-> FALSE]
            ELSE LET parsed == parseEventStreamLine(p, buf, start, scan.fieldLength,
                                                    scan.lineLength)
                 IN IF parsed.thrown
                    THEN [p |-> parsed, position |-> start, discard |-> scan.cr]
                    ELSE WriteLoop(parsed, buf, start + scan.lineLength + 1, scan.cr)

\* the buffer after the loop
Remainder(buf, position) ==
    IF position = Len(buf) THEN Null
    ELSE IF position > 0 THEN Slice(buf, position, Len(buf))
    ELSE buf

\* write(chunk) on the state w = [p, buffer, discard]; an exception leaves
\* the buffer as line 310 assigned it
Write(w, chunk) ==
    LET buf == IF w.buffer # Null THEN w.buffer \o chunk ELSE chunk
        out == WriteLoop(w.p, buf, 0, w.discard)
    IN [p |-> out.p,
        buffer |-> IF out.p.thrown THEN buf ELSE Remainder(buf, out.position),
        discard |-> out.discard]

\* the closure state of a fresh handleResponse (lines 258-260, 303-305)
NewParser(lastId) ==
    [p |-> [eventId |-> Null, eventName |-> <<>>, eventData |-> <<>>,
            lastEventId |-> lastId, events |-> <<>>, thrown |-> FALSE],
     buffer |-> Null, discard |-> FALSE]

\* the closure state held in the variables
Parser ==
    [p |-> [eventId |-> eventId, eventName |-> eventName, eventData |-> eventData,
            lastEventId |-> lastEventId, events |-> events, thrown |-> FALSE],
     buffer |-> buffer, discard |-> discardTrailingNewline]

\* heartbeat?.() at the end of write
MarkHeartbeat == lastHeartbeat' = (IF heartbeat THEN TRUE ELSE lastHeartbeat)

\* the variables after write(chunk). An exception of write skips
\* heartbeat?.() and callback() and reaches the transport that called write,
\* which aborts the request with it.
WriteChunk(chunk) ==
    \E w \in {Write(Parser, chunk)} :
       /\ eventId' = w.p.eventId
       /\ eventName' = w.p.eventName
       /\ eventData' = w.p.eventData
       /\ lastEventId' = w.p.lastEventId
       /\ events' = w.p.events
       /\ buffer' = w.buffer
       /\ discardTrailingNewline' = w.discard
       /\ IF w.p.thrown
          THEN /\ transport' = "failed"
               /\ openRequests' = openRequests - 1
               /\ op' = <<"write", "throw">>
               /\ UNCHANGED lastHeartbeat
          ELSE /\ op' = <<"write", "chunk">>
               /\ MarkHeartbeat
               /\ UNCHANGED <<transport, openRequests>>

(***************************************************************************)
(* Input history, read off the delivered lines with the wire format's own  *)
(* rules (a line without a colon is a field with an empty value, a leading *)
(* colon is a comment, one space after the colon is dropped, an id with a  *)
(* NUL is ignored).  The program never reads these definitions.            *)
(***************************************************************************)
RECURSIVE ColonIndex(_, _)
ColonIndex(line, i) ==
    IF i > Len(line) THEN 0
    ELSE IF line[i] = COLON_CHARACTER THEN i
    ELSE ColonIndex(line, i + 1)

WireField(line) ==
    LET c == ColonIndex(line, 1)
    IN IF c = 0 THEN line ELSE SubSeq(line, 1, c - 1)

WireValue(line) ==
    LET c == ColonIndex(line, 1)
        rest == SubSeq(line, c + 1, Len(line))
    IN IF c = 0 THEN <<>>
       ELSE IF Len(rest) > 0 /\ rest[1] = SPACE_CHARACTER THEN Tail(rest)
       ELSE rest

HasNul(value) == \E i \in 1..Len(value) : value[i] = 0

WireValues(rec, field) ==
    LET idx == {i \in 1..Len(rec) : WireField(rec[i]) = field}
    IN [k \in 1..Cardinality(idx) |->
          WireValue(rec[CHOOSE i \in idx : Cardinality({j \in idx : j <= i}) = k])]

\* the id a record carries: its last id field without a NUL, Null when it has none
WireRecordId(rec) ==
    LET ids == SelectSeq(WireValues(rec, FIELD_ID), LAMBDA v : ~HasNul(v))
    IN IF Len(ids) = 0 THEN Null ELSE ids[Len(ids)]

\* one whole line, with its line feed, as a chunk
LineChunk(line) == line \o <<LINE_FEED_CHARACTER>>

\* the history after the line has been delivered
TrackLine(line) ==
    IF line = <<>>
    THEN /\ lastRecord' = record
         /\ record' = <<>>
         /\ idHistory' = (IF WireRecordId(record) # Null THEN WireRecordId(record)
                          ELSE idHistory)
    ELSE /\ record' = Append(record, line)
         /\ UNCHANGED <<lastRecord, idHistory>>

(***************************************************************************)
(* The `backoff` package as EventSource drives it: exponential strategy,   *)
(* factor 2, no randomisation, no failAfter.                               *)
(***************************************************************************)
\* faulty variant: handleResponse does not reset the backoff
BackoffReset_skipped == UNCHANGED <<backoffTimer, backoffDelay, nextBackoffDelay>>

\* this.backoff.reset()
BackoffReset ==
    /\ backoffTimer' = FALSE
    /\ backoffDelay' = 0
    /\ nextBackoffDelay' = initialReconnectDelay

\* try { this.backoff.backoff() } catch (_) {}: throws while a timer is pending
BackoffBackoff ==
    IF backoffTimer
    THEN UNCHANGED <<backoffTimer, backoffDelay, nextBackoffDelay>>
    ELSE /\ backoffTimer' = TRUE
         /\ backoffDelay' = Min(nextBackoffDelay, maximumReconnectDelay)
         /\ nextBackoffDelay' = 2 * Min(nextBackoffDelay, maximumReconnectDelay)

(***************************************************************************)
(* EventSource.connect, up to the await.                                   *)
(***************************************************************************)
Note(name) == [name |-> name, readyState |-> readyState]

\* faulty variant: the guard forgets CONNECTING
ConnectBlocked_connectedOnly == readyState = ReadyStates.CONNECTED

\* the guard of connect
ConnectBlocked == readyState \in {ReadyStates.CONNECTING, ReadyStates.CONNECTED}

\* if (this.lastEventId) headers['Last-Event-ID'] = this.lastEventId
LastEventIdHeader == IF lastEventId # Null /\ lastEventId # <<>> THEN lastEventId ELSE Null

parserVars == <<eventId, eventName, eventData, buffer, discardTrailingNewline>>
inputVars == <<record, lastRecord, idHistory, stream, lines, pos>>
heartbeatVars == <<heartbeatInterval, heartbeatTarget, lastHeartbeat, heartbeat>>
backoffVars == <<backoffTimer, backoffDelay, nextBackoffDelay>>

Connect(caller) ==
    IF ConnectBlocked
    THEN /\ op' = <<caller, "ignored">>
         /\ UNCHANGED <<readyState, notes, events, requestHeader, transport, openRequests>>
    ELSE /\ op' = <<caller, "connect">>
         /\ readyState' = ReadyStates.CONNECTING
         /\ notes' = <<[name |-> "connecting", readyState |-> ReadyStates.CONNECTING]>>
         /\ events' = <<>>
         /\ requestHeader' = LastEventIdHeader
         /\ transport' = "pending"
         /\ openRequests' = openRequests + 1

\* the owner calls connect()
OwnerConnect ==
    /\ Connect("owner")
    /\ UNCHANGED <<lastEventId, errorListener, unhandled, writes>>
    /\ UNCHANGED <<parserVars, inputVars, heartbeatVars, backoffVars>>

\* the backoff timer fires: this.backoff.on('ready', () => this.connect())
BackoffReady ==
    /\ backoffTimer
    /\ backoffTimer' = FALSE
    /\ Connect("backoff")
    /\ UNCHANGED <<backoffDelay, nextBackoffDelay>>
    /\ UNCHANGED <<lastEventId, errorListener, unhandled, writes>>
    /\ UNCHANGED <<parserVars, inputVars, heartbeatVars>>

(***************************************************************************)
(* EventSource.handleResponse and resetHeartbeatTimeout.                   *)
(***************************************************************************)
StatusCodes == {200, 404}
ContentTypes == {"text/event-stream", "text/event-stream; charset=utf-8", "text/html"}

\* contentType.includes('text/event-stream')
IncludesEventStream(contentType) ==
    contentType \in {"text/event-stream", "text/event-stream; charset=utf-8"}

\* resetHeartbeatTimeout(callback): arms the interval unless one is armed
ResetHeartbeatTimeout ==
    IF heartbeatInterval
    THEN /\ heartbeat' = FALSE
         /\ heartbeatTarget' = FALSE
         /\ UNCHANGED heartbeatInterval
    ELSE /\ heartbeat' = TRUE
         /\ heartbeatTarget' = TRUE
         /\ heartbeatInterval' = TRUE

HandleResponse ==
    \E statusCode \in StatusCodes, contentType \in ContentTypes :
        /\ transport = "pending"
        /\ IF statusCode # 200 \/ ~IncludesEventStream(contentType)
           THEN /\ transport' = "failed"
                /\ openRequests' = openRequests - 1
                /\ op' = <<"handleResponse", "throw">>
                /\ UNCHANGED <<readyState, notes, writes, record, lastRecord>>
                /\ UNCHANGED <<parserVars, heartbeatVars, backoffVars>>
           ELSE /\ eventId' = Null
                /\ eventName' = <<>>
                /\ eventData' = <<>>
                /\ buffer' = Null
                /\ discardTrailingNewline' = FALSE
                /\ BackoffReset
                /\ ResetHeartbeatTimeout
                /\ readyState' = ReadyStates.CONNECTED
                /\ notes' = Append(notes, [name |-> "connected",
                                           readyState |-> ReadyStates.CONNECTED])
                /\ transport' = "streaming"
                /\ writes' = 0
                /\ record' = <<>>
                /\ lastRecord' = NoRecord
                /\ op' = <<"handleResponse", "writable">>
                /\ UNCHANGED <<openRequests, lastHeartbeat>>
        /\ UNCHANGED <<lastEventId, requestHeader, errorListener, unhandled, events,
                       idHistory, stream, lines, pos>>

\* this.lastHeartbeat > Date.now() - this.options.heartbeatTimeout, at a tick.
\* undefined compares false. For a timestamp the outcome is decided by the
\* wall clock and by when the timer fires (late, or early by Date.now()):
\* `young` is whether the timestamp is less than heartbeatTimeout old.
HeartbeatAlive(young) == lastHeartbeat /\ young

\* the interval's tick
HeartbeatTick ==
  \E young \in BOOLEAN :
    /\ heartbeatInterval
    /\ UNCHANGED lastHeartbeat
    /\ IF HeartbeatAlive(young)
       THEN /\ op' = <<"heartbeat", "alive">>
            /\ UNCHANGED <<heartbeatInterval, heartbeatTarget, transport, openRequests>>
       ELSE /\ heartbeatInterval' = FALSE
            /\ heartbeatTarget' = FALSE
            /\ IF heartbeatTarget /\ transport = "streaming"
               THEN /\ transport' = "failed"
                    /\ openRequests' = openRequests - 1
                    /\ op' = <<"heartbeat", "destroy">>
               ELSE /\ op' = <<"heartbeat", "stale">>
                    /\ UNCHANGED <<transport, openRequests>>
    /\ UNCHANGED <<readyState, lastEventId, requestHeader, errorListener, unhandled,
                   heartbeat, events, notes, writes>>
    /\ UNCHANGED <<parserVars, inputVars, backoffVars>>

(***************************************************************************)
(* The transport: a chunk, the end of the stream, an error.                *)
(***************************************************************************)
StreamLines == {<<105, 100, 58, 49>>,            \* id:1
                <<105, 100, 58, 0>>,             \* id:<NUL>
                <<105, 100, 58>>,                \* id:
                <<105, 100>>,                    \* id
                <<100, 97, 116, 97, 58, 97>>,    \* data:a
                <<>>}

WriteStream ==
    \E line \in StreamLines :
        /\ transport = "streaming"
        /\ writes < MaxWrites
        /\ WriteChunk(LineChunk(line))
        /\ TrackLine(line)
        /\ writes' = writes + 1
        /\ UNCHANGED <<readyState, requestHeader, errorListener,
                       unhandled, heartbeatInterval, heartbeatTarget, heartbeat, notes,
                       stream, lines, pos>>
        /\ UNCHANGED backoffVars

StreamEnd ==
    /\ transport = "streaming"
    /\ transport' = "ended"
    /\ openRequests' = openRequests - 1
    /\ op' = <<"transport", "end">>
    /\ UNCHANGED <<readyState, lastEventId, requestHeader, errorListener, unhandled,
                   events, notes, writes>>
    /\ UNCHANGED <<parserVars, inputVars, heartbeatVars, backoffVars>>

TransportError ==
    /\ transport \in {"pending", "streaming"}
    /\ transport' = "failed"
    /\ openRequests' = openRequests - 1
    /\ op' = <<"transport", "error">>
    /\ UNCHANGED <<readyState, lastEventId, requestHeader, errorListener, unhandled,
                   events, notes, writes>>
    /\ UNCHANGED <<parserVars, inputVars, heartbeatVars, backoffVars>>

(***************************************************************************)
(* EventSource.connect after the await: catch, 'disconnected', backoff.    *)
(***************************************************************************)
\* this.emit('error', err) throws when nobody listens to 'error'
EmitErrorThrows == transport = "failed" /\ ~errorListener

Settle ==
    /\ transport \in {"failed", "ended"}
    /\ transport' = "idle"
    /\ IF EmitErrorThrows
       THEN /\ unhandled' = TRUE
            /\ op' = <<"settle", "throw">>
            /\ UNCHANGED <<readyState, notes>>
            /\ UNCHANGED backoffVars
       ELSE /\ notes' = notes
                 \o (IF transport = "failed" THEN <<Note("error")>> ELSE <<>>)
                 \o <<Note("disconnected")>>
            /\ readyState' = ReadyStates.DISCONNECTED
            /\ BackoffBackoff
            /\ op' = <<"settle", "disconnected">>
            /\ UNCHANGED unhandled
    /\ UNCHANGED <<lastEventId, openRequests, requestHeader, errorListener, events, writes>>
    /\ UNCHANGED <<parserVars, inputVars, heartbeatVars>>

(***************************************************************************)
(* The EventSource: Init is the state the constructor leaves, its own      *)
(* connect() awaiting the response.                                        *)
(***************************************************************************)
Init ==
    /\ readyState = ReadyStates.CONNECTING
    /\ lastEventId = Null
    /\ transport = "pending"
    /\ openRequests = 1
    /\ requestHeader = Null
    /\ errorListener \in BOOLEAN
    /\ unhandled = FALSE
    /\ backoffTimer = FALSE
    /\ backoffDelay = 0
    /\ nextBackoffDelay = initialReconnectDelay
    /\ heartbeatInterval = FALSE
    /\ heartbeatTarget = FALSE
    /\ lastHeartbeat = FALSE
    /\ heartbeat = FALSE
    /\ eventId = Null
    /\ eventName = <<>>
    /\ eventData = <<>>
    /\ buffer = Null
    /\ discardTrailingNewline = FALSE
    /\ events = <<>>
    /\ notes = <<[name |-> "connecting", readyState |-> ReadyStates.CONNECTING]>>
    /\ op = <<"constructor", "connect">>
    /\ writes = 0
    /\ record = <<>>
    /\ lastRecord = NoRecord
    /\ idHistory = Null
    /\ stream = <<>>
    /\ lines = <<>>
    /\ pos = 0

Next ==
    \/ OwnerConnect
    \/ BackoffReady
    \/ HandleResponse
    \/ HeartbeatTick
    \/ WriteStream
    \/ StreamEnd
    \/ TransportError
    \/ Settle

Spec == Init /\ [][Next]_vars

(***************************************************************************)
(* The parser alone, on a connection that has just reached Connected.      *)
(* SpecCuts delivers one byte sequence cut into chunks at every place;     *)
(* SpecLines writes lines one per chunk.                                   *)
(***************************************************************************)
Connected ==
    /\ readyState = ReadyStates.CONNECTED
    /\ lastEventId = Null
    /\ transport = "streaming"
    /\ openRequests = 1
    /\ requestHeader = Null
    /\ errorListener \in BOOLEAN
    /\ unhandled = FALSE
    /\ backoffTimer = FALSE
    /\ backoffDelay = 0
    /\ nextBackoffDelay = initialReconnectDelay
    /\ heartbeatInterval = TRUE
    /\ heartbeatTarget = TRUE
    /\ lastHeartbeat = FALSE
    /\ heartbeat = TRUE
    /\ eventId = Null
    /\ eventName = <<>>
    /\ eventData = <<>>
    /\ buffer = Null
    /\ discardTrailingNewline = FALSE
    /\ events = <<>>
    /\ notes = <<[name |-> "connecting", readyState |-> ReadyStates.CONNECTING],
                 [name |-> "connected", readyState |-> ReadyStates.CONNECTED]>>
    /\ op = <<"handleResponse", "writable">>
    /\ writes = 0
    /\ record = <<>>
    /\ lastRecord = NoRecord
    /\ idHistory = Null

Terminators == {<<LINE_FEED_CHARACTER>>, <<CARRIAGE_RETURN_CHARACTER>>,
                <<CARRIAGE_RETURN_CHARACTER, LINE_FEED_CHARACTER>>}

CutLines == {<<>>,
             <<100, 97, 116, 97, 58, 97>>,        \* data:a
             <<105, 100, 58, 32, 49>>             \* id: 1
            }

\* the streams of at most n lines, each with the lines it is made of
RECURSIVE StreamInputs(_)
StreamInputs(n) ==
    IF n = 0 THEN {[lines |-> <<>>, stream |-> <<>>]}
    ELSE {[lines |-> <<>>, stream |-> <<>>]} \cup
         {[lines |-> <<[line |-> line, term |-> term]>> \o rest.lines,
           stream |-> line \o term \o rest.stream] :
             line \in CutLines, term \in Terminators, rest \in StreamInputs(n - 1)}

Streams(n) == {input.stream : input \in StreamInputs(n)}

\* no line of these streams names an event, so whether the owner listens to
\* 'error' is immaterial: the streams are delivered to an owner who does
InitCuts ==
    /\ Connected
    /\ errorListener
    /\ \E input \in StreamInputs(MaxStreamLines) :
          /\ stream = input.stream
          /\ lines = input.lines
    /\ pos = 0

\* the transport delivers the next n bytes of the stream as one chunk
WriteCut ==
    \E n \in 0..(Len(stream) - pos) :
        /\ transport = "streaming"
        /\ WriteChunk(SubSeq(stream, pos + 1, pos + n))
        /\ pos' = pos + n
        /\ UNCHANGED <<readyState, requestHeader, errorListener,
                       unhandled, heartbeatInterval, heartbeatTarget, heartbeat, notes,
                       writes, record, lastRecord, idHistory, stream, lines>>
        /\ UNCHANGED backoffVars

NextCuts == WriteCut

SpecCuts == InitCuts /\ [][NextCuts]_vars

Lines == {<<>>,
          <<100, 97, 116, 97, 58, 97>>,            \* data:a
          <<100, 97, 116, 97, 58, 32, 98>>,        \* data: b
          <<100, 97, 116, 97, 58>>,                \* data:
          <<100, 97, 116, 97>>,                    \* data
          <<105, 100, 58, 49>>,                    \* id:1
          <<105, 100, 58, 0>>,                     \* id:<NUL>
          <<101, 118, 101, 110, 116, 58, 101>>,    \* event:e
          <<101, 118, 101, 110, 116, 58, 101, 114, 114, 111, 114>>,  \* event:error
          <<101, 118, 101, 110, 116, 58,
            100, 105, 115, 99, 111, 110, 110, 101, 99, 116, 101, 100>>,  \* event:disconnected
          <<58, 99>>                               \* :c
         }

InitLines ==
    /\ Connected
    /\ stream = <<>>
    /\ lines = <<>>
    /\ pos = 0

\* the transport delivers one line and its line feed as one chunk
WriteLine ==
    \E line \in Lines :
        /\ transport = "streaming"
        /\ writes < MaxLines
        /\ WriteChunk(LineChunk(line))
        /\ TrackLine(line)
        /\ writes' = writes + 1
        /\ UNCHANGED <<readyState, requestHeader, errorListener,
                       unhandled, heartbeatInterval, heartbeatTarget, heartbeat, notes,
                       stream, lines, pos>>
        /\ UNCHANGED backoffVars

NextLines == WriteLine

SpecLines == InitLines /\ [][NextLines]_vars

(***************************************************************************)
(* Properties.                                                             *)
(***************************************************************************)
\* the step writes a blank line, which ends the record `record`
BlankLineStep == writes' = writes + 1 /\ record' = <<>> /\ lastRecord' = record

\* the step emits one stream event
EmitStep == Len(events') = Len(events) + 1

RECURSIVE JoinLF(_)
JoinLF(values) ==
    IF Len(values) = 0 THEN <<>>
    ELSE IF Len(values) = 1 THEN values[1]
    ELSE values[1] \o <<LINE_FEED_CHARACTER>> \o JoinLF(Tail(values))

\* C1: however a byte sequence is cut into chunks, the events emitted and
\* lastEventId after the bytes delivered so far are those of writing the same
\* bytes as one chunk to a fresh parser.
C1_ChunkingInvariant ==
    LET whole == Write(NewParser(Null), SubSeq(stream, 1, pos)).p
    IN /\ events = whole.events
       /\ lastEventId = whole.lastEventId

\* C1 witness: the stream has been cut between the CR and the LF of a CRLF,
\* after an event was emitted and an id committed.
C1_Witness ==
    /\ pos > 0 /\ pos < Len(stream)
    /\ stream[pos] = CARRIAGE_RETURN_CHARACTER
    /\ stream[pos + 1] = LINE_FEED_CHARACTER
    /\ discardTrailingNewline
    /\ Len(events) > 0
    /\ lastEventId # Null

\* C2: at most one transport request is open, and a connect() call made while
\* readyState is Connecting or Connected opens no request, emits no
\* notification and changes no state of the EventSource.
C2_SingleRequest ==
    /\ [](openRequests <= 1)
    /\ [][(/\ op'[1] \in {"owner", "backoff"}
           /\ readyState \in {ReadyStates.CONNECTING, ReadyStates.CONNECTED})
          => UNCHANGED <<readyState, lastEventId, transport, openRequests, requestHeader,
                         unhandled, notes, events, heartbeatVars, parserVars,
                         backoffDelay, nextBackoffDelay>>]_vars

\* C2 witness: the backoff's 'ready' signal called connect() while the request
\* of an owner's connect() was open, and was ignored.
C2_Witness ==
    /\ op = <<"backoff", "ignored">>
    /\ transport = "pending"
    /\ openRequests = 1

\* C3: once an attempt has terminated and connect() has run to its end,
\* readyState is Disconnected and the backoff holds a timer for the retry.
C3_AlwaysRetried ==
    transport = "idle" => (readyState = ReadyStates.DISCONNECTED /\ backoffTimer)

\* C4: whenever a connection is Connected and streaming, the heartbeat interval
\* is armed with a callback that aborts this connection's transport.
C4_HeartbeatGuardsConnection ==
    (readyState = ReadyStates.CONNECTED /\ transport = "streaming")
        => (heartbeatInterval /\ heartbeatTarget)

\* C5: a request opened after a record with a non-empty id was completed
\* carries, as Last-Event-ID, the id of the latest completed record that
\* carried an id.
C5_HeaderIsLatestId ==
    (transport = "pending" /\ idHistory # Null /\ idHistory # <<>>)
        => requestHeader = idHistory

\* C6: lastEventId changes only in a write that ends, with a blank line, a
\* record that carried an id field, and only to the value of an id field of
\* that record; no other operation changes it.
C6_LastEventIdFrame ==
    [][lastEventId' # lastEventId
       => /\ op' = <<"write", "chunk">>
          /\ BlankLineStep
          /\ \E i \in 1..Len(record) :
                /\ WireField(record[i]) = FIELD_ID
                /\ lastEventId' = WireValue(record[i])]_vars

\* C6 witness: on a later connection a blank line has replaced the id the
\* request was opened with by the id of the record it ended.
C6_Witness ==
    /\ op = <<"write", "chunk">>
    /\ record = <<>>
    /\ lastRecord # NoRecord
    /\ requestHeader # Null
    /\ lastEventId # requestHeader
    /\ lastEventId = WireRecordId(lastRecord)

\* C7: an id with a NUL never becomes lastEventId nor the id of an emitted
\* Event.
C7_NulIdIgnored ==
    /\ ~HasNul(lastEventId)
    /\ \A i \in 1..Len(events) : ~HasNul(events[i].id)

\* C8: a blank line emits an Event if and only if the record it ends holds at
\* least one data field line.
C8_EmitIffData ==
    [][BlankLineStep => (EmitStep <=> Len(WireValues(record, FIELD_DATA)) > 0)]_vars

\* C9: the data of an emitted Event is the values of the record's data field
\* lines, in order, joined by single line feeds.
C9_DataJoined ==
    [][(BlankLineStep /\ EmitStep)
       => events'[Len(events')].data = JoinLF(WireValues(record, FIELD_DATA))]_vars

\* C10: an Event of a record without an event field line is named "message"
\* and delivered on the `message` notification.
C10_DefaultName ==
    [][(BlankLineStep /\ EmitStep /\ Len(WireValues(record, FIELD_EVENT)) = 0)
       => /\ events'[Len(events')].name = MESSAGE
          /\ events'[Len(events')].channel = MESSAGE]_vars

\* C11: every transition to Connected resets the backoff to
\* initialReconnectDelay with no timer pending; every retry timer scheduled
\* at a disconnection has a delay no smaller than the one before it in the
\* same run of disconnections, initialReconnectDelay for the first of the
\* run, and never more than maximumReconnectDelay.
C11_BackoffDelays ==
    /\ [](backoffTimer => (/\ backoffDelay >= initialReconnectDelay
                           /\ backoffDelay <= maximumReconnectDelay))
    /\ [][(readyState' = ReadyStates.CONNECTED /\ readyState # ReadyStates.CONNECTED)
          => (/\ nextBackoffDelay' = initialReconnectDelay
              /\ backoffDelay' = 0
              /\ ~backoffTimer')]_vars
    /\ [][(op' = <<"settle", "disconnected">> /\ ~backoffTimer /\ backoffTimer')
          => (/\ backoffDelay' >= backoffDelay
              /\ backoffDelay = 0 => backoffDelay' = initialReconnectDelay
              /\ backoffDelay' <= maximumReconnectDelay)]_vars

\* C11 witness: after five disconnections in a row the retry waits the
\* maximum delay.
C11_Witness ==
    /\ readyState = ReadyStates.DISCONNECTED
    /\ backoffTimer
    /\ backoffDelay = maximumReconnectDelay
    /\ nextBackoffDelay = 2 * maximumReconnectDelay

\* the stream's lines, each terminated by a single line feed
RECURSIVE LinesLF(_)
LinesLF(ls) ==
    IF ls = <<>> THEN <<>>
    ELSE ls[1].line \o <<LINE_FEED_CHARACTER>> \o LinesLF(Tail(ls))

\* the events and lastEventId of a byte sequence written as one chunk to a
\* fresh parser
Outcome(bytes) ==
    LET whole == Write(NewParser(Null), bytes).p
    IN  <<whole.events, whole.lastEventId>>

\* a line terminated by CR stands directly before an empty line whose
\* terminator starts with LF: on the wire the two ends read as one CRLF
CrBeforeLfBlank(ls) ==
    \E i \in 1..(Len(ls) - 1) :
        /\ ls[i].term = <<CARRIAGE_RETURN_CHARACTER>>
        /\ ls[i + 1].line = <<>>
        /\ ls[i + 1].term[1] = LINE_FEED_CHARACTER

\* C12 as stated: whatever terminator (LF, CR or CRLF) each line of the
\* stream carries, and however the stream is cut into chunks, the events and
\* lastEventId are those of the same lines terminated by LF.
C12_TerminatorsInterchangeable ==
    pos = Len(stream) => <<events, lastEventId>> = Outcome(LinesLF(lines))

\* C12 amended: the same, for streams in which no CR-terminated line stands
\* directly before an empty line whose terminator starts with LF; a CRLF is
\* one line end in every stream, also when cut between the CR and the LF.
C12_TerminatorsExceptCrLf ==
    (pos = Len(stream) /\ ~CrBeforeLfBlank(lines))
        => <<events, lastEventId>> = Outcome(LinesLF(lines))

\* C12 witness: a stream with a CR-terminated and a CRLF-terminated line has
\* been delivered whole and emitted an event.
C12_Witness ==
    /\ pos = Len(stream)
    /\ ~CrBeforeLfBlank(lines)
    /\ \E i \in 1..Len(lines) : lines[i].term = <<CARRIAGE_RETURN_CHARACTER>>
    /\ \E i \in 1..Len(lines) :
          lines[i].term = <<CARRIAGE_RETURN_CHARACTER, LINE_FEED_CHARACTER>>
    /\ Len(events) > 0

\* C13: a line without a colon is a field with the empty value: a record made
\* of the bare line `data` emits, at its blank line, an event with empty data.
C13_BareFieldLine ==
    [][(BlankLineStep /\ record = <<FIELD_DATA>>)
          => (EmitStep /\ events'[Len(events')].data = <<>>)]_vars

\* C14: no heartbeat timer is armed while readyState is Disconnected, and none
\* is still running when the next connection reaches Connected.
C14_HeartbeatStopped ==
    /\ [](readyState = ReadyStates.DISCONNECTED => ~heartbeatInterval)
    /\ [][(readyState' = ReadyStates.CONNECTED /\ readyState # ReadyStates.CONNECTED)
          => ~heartbeatInterval]_vars

\* the names of the lifecycle notifications of the attempt, in order
NoteNames == [i \in 1..Len(notes) |-> notes[i].name]

\* C15: a response with a status other than 200 or a Content-Type without
\* text/event-stream leaves readyState Connecting, emits no `connected`, does
\* not reset the backoff, arms no heartbeat timer and parses no byte; the
\* attempt then ends with an `error` and a `disconnected` notification and
\* readyState Disconnected.
C15_RejectedResponse ==
    /\ [][op' = <<"handleResponse", "throw">>
          => (/\ readyState = ReadyStates.CONNECTING
              /\ UNCHANGED <<readyState, notes, events, lastEventId>>
              /\ UNCHANGED <<backoffVars, heartbeatVars, parserVars>>)]_vars
    /\ [][(op = <<"handleResponse", "throw">> /\ op'[1] = "settle")
          => (/\ readyState' = ReadyStates.DISCONNECTED
              /\ NoteNames' = <<"connecting", "error", "disconnected">>)]_vars

\* C16: whenever a `disconnected` notification is delivered, readyState is
\* already Disconnected, so that connect() called from the handler passes the
\* guard.
C16_DisconnectedAfterState ==
    \A i \in 1..Len(notes) :
        notes[i].name = "disconnected" => notes[i].readyState = ReadyStates.DISCONNECTED

\* the notification sequences of a finished attempt: ended normally, failed
\* before Connected, failed after Connected
AttemptNotes == {<<"connecting", "connected", "disconnected">>,
                 <<"connecting", "error", "disconnected">>,
                 <<"connecting", "connected", "error", "disconnected">>}

\* C17: a finished attempt has notified connecting, at most one connected,
\* then exactly one disconnected, directly preceded by exactly one error when
\* the attempt ended by a failure and by none when the stream ended normally;
\* the next attempt's connecting comes only after that disconnected.
C17_NotificationOrder ==
    /\ [](transport = "idle" => NoteNames \in AttemptNotes)
    /\ [][op'[1] = "settle"
          => (transport = "failed" <=> \E i \in 1..Len(notes') : notes'[i].name = "error")]_vars
    /\ [][(op'[2] = "connect")
          => (/\ NoteNames' = <<"connecting">>
              /\ notes[Len(notes)].name = "disconnected")]_vars

\* C18: every blank line leaves the data accumulator empty, the event name
\* unset and the pending id cleared, and commits a pending id to lastEventId,
\* whether or not an event is emitted; so an event of a record without an
\* event line is named by default and an event of a record without an id line
\* carries no id, and a record made of an id line alone advances lastEventId.
C18_RecordReset ==
    /\ [][BlankLineStep
          => (/\ eventData' = <<>>
              /\ eventName' = Null
              /\ eventId' = Null
              /\ eventId # Null => lastEventId' = eventId)]_vars
    /\ [][(BlankLineStep /\ EmitStep)
          => LET event == events'[Len(events')]
             IN  /\ WireValues(record, FIELD_EVENT) = <<>>
                      => (event.channel = MESSAGE /\ event.name \in {Null, <<>>})
                 /\ WireValues(record, FIELD_ID) = <<>> => event.id = Null]_vars
    /\ [][(BlankLineStep /\ record = << <<105, 100, 58, 49>> >>)
          => (lastEventId' = <<49>> /\ ~EmitStep)]_vars

\* the names of the lifecycle notifications, as the bytes of an event name
LifecycleNames == {<<99, 111, 110, 110, 101, 99, 116, 105, 110, 103>>,          \* connecting
                   <<99, 111, 110, 110, 101, 99, 116, 101, 100>>,               \* connected
                   <<100, 105, 115, 99, 111, 110, 110, 101, 99, 116, 101, 100>>, \* disconnected
                   ERROR}

\* C20: no content of the stream causes a lifecycle notification: subscribers
\* of connecting, connected, disconnected and error are never called with an
\* event parsed from the stream.
C20_LifecycleNotFromStream ==
    \A i \in 1..Len(events) : events[i].channel \notin LifecycleNames

(***************************************************************************)
(* The fetch variant of src/eventsource.js (lines 1-166): the 'data'       *)
(* handler of handleResponse, which splits the whole buffer with           *)
(* EVENT_ENDING_REGEX, and the EventSourceEvent it builds of each piece.   *)
(***************************************************************************)
IsLineEnding(character) ==
    character \in {CARRIAGE_RETURN_CHARACTER, LINE_FEED_CHARACTER}

\* buf.split(EVENT_ENDING_REGEX), scanning from index i of a piece begun at
\* start: the expression matches the first two adjacent bytes that are each
\* a CR or an LF (the alternative \r\n is never needed for a match)
RECURSIVE SplitEventEnding(_, _, _)
SplitEventEnding(buf, start, i) ==
    IF i + 1 > Len(buf) THEN << SubSeq(buf, start, Len(buf)) >>
    ELSE IF IsLineEnding(buf[i]) /\ IsLineEnding(buf[i + 1])
    THEN << SubSeq(buf, start, i - 1) >> \o SplitEventEnding(buf, i + 2, i + 2)
    ELSE SplitEventEnding(buf, start, i + 1)

\* data.split(LINE_ENDING_REGEX): every single CR or LF ends a line
RECURSIVE SplitLineEnding(_, _, _)
SplitLineEnding(data, start, i) ==
    IF i > Len(data) THEN << SubSeq(data, start, Len(data)) >>
    ELSE IF IsLineEnding(data[i])
    THEN << SubSeq(data, start, i - 1) >> \o SplitLineEnding(data, i + 1, i + 1)
    ELSE SplitLineEnding(data, start, i + 1)

\* line.indexOf(character), searched from the 1-based position from
RECURSIVE IndexOf(_, _, _)
IndexOf(line, character, from) ==
    IF from > Len(line) THEN -1
    ELSE IF line[from] = character THEN from - 1
    ELSE IndexOf(line, character, from + 1)

\* fieldValue.includes('\0')
IncludesNul(value) == \E i \in 1..Len(value) : value[i] = 0

\* the body of the loop over the lines in the EventSourceEvent constructor;
\* e is [eventId, eventName, eventData]
EventLine(e, line) ==
    IF Len(line) > 0 /\ line[1] = COLON_CHARACTER THEN e
    ELSE LET colonIndex == IndexOf(line, COLON_CHARACTER, 1)
             fieldName == IF colonIndex > -1 THEN SubSeq(line, 1, colonIndex) ELSE line
             afterColon == IF colonIndex > -1
                           THEN SubSeq(line, colonIndex + 2, Len(line)) ELSE <<>>
             fieldValue == IF Len(afterColon) > 0 /\ afterColon[1] = SPACE_CHARACTER
                           THEN Tail(afterColon) ELSE afterColon
         IN  IF fieldName = FIELD_EVENT THEN [e EXCEPT !.eventName = fieldValue]
             ELSE IF fieldName = FIELD_DATA
             THEN [e EXCEPT !.eventData = @ \o fieldValue \o <<LINE_FEED_CHARACTER>>]
             ELSE IF fieldName = FIELD_ID /\ ~IncludesNul(fieldValue)
             THEN [e EXCEPT !.eventId = fieldValue]
             ELSE e

RECURSIVE EventLines(_, _)
EventLines(e, ls) ==
    IF ls = <<>> THEN e ELSE EventLines(EventLine(e, Head(ls)), Tail(ls))

\* new EventSourceEvent(data)
EventSourceEvent(data) ==
    LET e == EventLines([eventId |-> Null, eventName |-> <<>>, eventData |-> <<>>],
                        SplitLineEnding(data, 1, 1))
    IN  [channel |-> OrMessage(e.eventName),
         id |-> e.eventId,
         name |-> OrMessage(e.eventName),
         data |-> e.eventData]

\* the for loop over bufferedEvents, all but the last; st is [lastEventId, events]
RECURSIVE BufferedEvents(_, _, _)
BufferedEvents(st, bufferedEvents, i) ==
    IF i > Len(bufferedEvents) - 1 THEN st
    ELSE IF Len(bufferedEvents[i]) = 0 THEN BufferedEvents(st, bufferedEvents, i + 1)
    ELSE LET event == EventSourceEvent(bufferedEvents[i])
             emitted == IF event.data # <<>> THEN Append(st.events, event) ELSE st.events
             id == IF event.id # Null /\ event.id # <<>> THEN event.id ELSE st.lastEventId
         IN  BufferedEvents([lastEventId |-> id, events |-> emitted], bufferedEvents, i + 1)

\* response.body.on('data', chunk => ...)
OnData(chunk) ==
    \E bufferedEvents \in {SplitEventEnding(buffer \o chunk, 1, 1)} :
        IF Len(bufferedEvents) < 2
        THEN /\ buffer' = buffer \o chunk
             /\ UNCHANGED <<lastEventId, events>>
        ELSE \E st \in {BufferedEvents([lastEventId |-> lastEventId, events |-> events],
                                       bufferedEvents, 1)} :
                /\ lastEventId' = st.lastEventId
                /\ events' = st.events
                /\ buffer' = <<>>

\* the fetch variant after handleResponse accepted the response: the backoff
\* reset, readyState Connected, the buffer empty, no heartbeat timeout armed
\* until the first chunk
InitFetch ==
    /\ readyState = ReadyStates.CONNECTED
    /\ lastEventId = Null
    /\ transport = "streaming"
    /\ openRequests = 1
    /\ requestHeader = Null
    /\ errorListener = TRUE
    /\ unhandled = FALSE
    /\ backoffTimer = FALSE
    /\ backoffDelay = 0
    /\ nextBackoffDelay = initialReconnectDelay
    /\ heartbeatInterval = FALSE
    /\ heartbeatTarget = FALSE
    /\ lastHeartbeat = FALSE
    /\ heartbeat = FALSE
    /\ eventId = Null
    /\ eventName = <<>>
    /\ eventData = <<>>
    /\ buffer = <<>>
    /\ discardTrailingNewline = FALSE
    /\ events = <<>>
    /\ notes = <<[name |-> "connecting", readyState |-> ReadyStates.CONNECTING],
                 [name |-> "connected", readyState |-> ReadyStates.CONNECTED]>>
    /\ op = <<"handleResponse", "body">>
    /\ writes = 0
    /\ record = <<>>
    /\ lastRecord = NoRecord
    /\ idHistory = Null
    /\ \E input \in StreamInputs(MaxStreamLines) :
          /\ stream = input.stream
          /\ lines = input.lines
    /\ pos = 0

\* the response body delivers the next n bytes of the stream as one chunk:
\* the heartbeat timeout is re-armed, then the chunk is buffered and split
DataCut ==
    \E n \in 1..(Len(stream) - pos) :
        /\ heartbeatInterval' = TRUE
        /\ heartbeatTarget' = TRUE
        /\ UNCHANGED lastHeartbeat
        /\ OnData(SubSeq(stream, pos + 1, pos + n))
        /\ pos' = pos + n
        /\ op' = <<"data", "chunk">>
        /\ UNCHANGED <<readyState, transport, openRequests, requestHeader, errorListener,
                       unhandled, heartbeat, eventId, eventName, eventData,
                       discardTrailingNewline, notes, writes, record, lastRecord,
                       idHistory, stream, lines>>
        /\ UNCHANGED backoffVars

NextFetch == DataCut

SpecFetch == InitFetch /\ [][NextFetch]_vars

\* the text after the last event ending of a buffer
AfterLastEventEnding(buf) ==
    LET pieces == SplitEventEnding(buf, 1, 1) IN pieces[Len(pieces)]

\* C19: in the fetch variant no received byte is lost from the buffer: after
\* a chunk, the buffer holds the bytes that follow the last complete event
\* ending of the buffer and the chunk.
C19_TailStaysBuffered ==
    [][pos' > pos
          => buffer' = AfterLastEventEnding(buffer \o SubSeq(stream, pos + 1, pos'))]_vars

====
